---- MODULE Spec2Model ----
(***************************************************************************)
(* Model of cyiallou/ibm_ds_capstone_project:                              *)
(*   - fsquare.get_fsquare_data (src/fsquare.py), the aggregation of the   *)
(*     venue-search responses over areas x queries, as a state machine     *)
(*     stepped per loop iteration (specification Spec);                    *)
(*   - utils.create_grid (src/utils.py), the grid of tile centres, as a    *)
(*     function of its arguments (specification SpecGrid);                 *)
(*   - fsquare.get_all_fsquare_categories (specification SpecCat);         *)
(*   - Scraper.scrape and Scraper.crawl (src/utility/tascraper.py), the    *)
(*     web-driver session over the pages scraped (SpecScrape) and the      *)
(*     base url of the listing links (SpecCrawl).                          *)
(* Each specification runs one of them and holds the others idle.          *)
(* Python lists are sequences (1-based here, 0-based in the source).       *)
(***************************************************************************)
EXTENDS Integers, Sequences, FiniteSets, TLC

\* ------------------------------------------------------------- bounds
\* longest coords list, longest queries list, most venues in one response
MaxAreas == 2
MaxQueries == 2
MaxVenues == 2
\* create_grid: largest radius and largest minor_radius (both from 1)
MaxRadius == 6
MaxMinorRadius == 3
\* get_all_fsquare_categories: most sub-categories of one category
MaxSub == 2
\* Scraper.scrape: most batches of links, most links of one batch
MaxBatches == 2
MaxLinks == 2
\* Scraper.crawl: most further search pages, most listings of one page
MaxPages == 1
MaxHrefs == 2

\* ------------------------------------------------------ input domains
\* (latitude, longitude) pairs; latitude and longitude differ in each
Points == {<<52, 13>>, <<48, 11>>}
Payloads == {"x", "y"}
Ids == {"a", "b"}
Venue == [id : Ids, payload : Payloads]
Verbosity == {0, 1, 2}
Tps == {"cat", "qur", "other"}
\* the coords default of get_fsquare_data: [[]]
DefaultCoords == << <<>> >>
CoordsLists == UNION {[1..len -> Points] : len \in 0..MaxAreas}
\* queries are the strings 1..n, in the caller's order
QueryLists == {[k \in 1..len |-> k] : len \in 0..MaxQueries}

\* ------------------------------------------------- program constants
RateLimitCode == 429
ServerErrorCode == 500
\* status codes a response may carry: success, a client error, and the two
\* that _check_response_code tells apart
Codes == {200, 400, RateLimitCode, ServerErrorCode}

VARIABLES
    pc,             \* position in get_fsquare_data
    search_params,  \* api_params['search_params']
    queries, tp, coords, verbose,   \* the arguments
    all_fsq_data,   \* {'venues': [...], 'venue_ids': [...]}
    i, j,           \* areas / queries of the current area already taken
    pending,        \* venues of the current response not yet iterated
    venue,          \* the loop variable of the venue loop
    ret,            \* <<value>> once returned, <<>> before
    exc,            \* the exception that reached the caller, or "none"
    calls,          \* history: the search calls issued, in order
    last,           \* history: the response of the call being processed
    check,          \* history: what _check_response_code did on it
    offered,        \* history: ids of the venues the responses carried
    rateSeen,       \* history: some response carried code 429
    failSeen        \* history: some call failed (raised / malformed)

\* create_grid
VARIABLES
    gpc,            \* position in create_grid
    centre, radius, minor_radius, area_shape, ov,   \* the arguments
    n, num_grid_areas, area_radius,
    axis,           \* components of centre already enumerated (the loop's i)
    centres_x, centres_y,   \* <<array>> once bound, <<>> before
    gret,           \* <<value>> once returned, <<>> before
    gexc            \* the exception raised, or "none"

\* get_all_fsquare_categories
VARIABLES
    kpc,            \* position in get_all_fsquare_categories
    all_categories, \* the json document of the categories request
    categ_name, w,  \* the arguments
    w_categories,
    kret,           \* <<value>> once returned, <<>> before
    kexc            \* the exception raised, or "none"

\* Scraper.scrape
VARIABLES
    spc,            \* position in scrape
    links, vb,      \* the arguments
    batch,          \* search pages taken
    linkno,         \* links of the current search page taken
    session,        \* scrape's local: 0 for None, else the session's number
    sdata, v_id,    \* the output list (venue ids) and the id counter
    sessions,       \* history: for every session created, "open" or "closed"
    closes,         \* history: successful close() calls
    needed,         \* history: some page needed the web driver
    sret,           \* <<value>> once returned, <<>> before
    sexc            \* the exception that reached the caller, or "none"

\* Scraper.crawl
VARIABLES
    upc,            \* position in crawl
    url, all_pgs,   \* the arguments
    base_url, domain_name,      \* self.base_url, self.domain_name
    pages,          \* search pages still to list
    crawl_links,    \* the links collected, one list per search page
    uret,           \* <<value>> once returned, <<>> before
    uexc            \* the exception raised, or "none"

avars == <<pc, search_params, queries, tp, coords, verbose, all_fsq_data, i, j,
           pending, venue, ret, exc, calls, check, last, offered, rateSeen, failSeen>>
gvars == <<gpc, centre, radius, minor_radius, area_shape, ov, n, num_grid_areas,
           area_radius, axis, centres_x, centres_y, gret, gexc>>
kvars == <<kpc, all_categories, categ_name, w, w_categories, kret, kexc>>
svars == <<spc, links, vb, batch, linkno, session, sdata, v_id, sessions, closes,
           needed, sret, sexc>>
uvars == <<upc, url, all_pgs, base_url, domain_name, pages, crawl_links, uret, uexc>>
vars == <<avars, gvars, kvars, svars, uvars>>

\* ------------------------------------------------------------ helpers
\* the names bound inside get_fsquare_data (parameters and assigned locals);
\* the module defines no global besides the class and its imports
LocalNames == {"self", "api_params", "queries", "tp", "coords", "verbose",
               "number_of_areas_to_search", "all_fsq_data", "i", "longlat",
               "item", "response", "exit_func", "venues", "venue"}

\* the names bound inside _check_response_code
CheckLocalNames == {"code", "exit_func"}

NoCheck == [called |-> FALSE, raised |-> FALSE, warning |-> "none", exit_func |-> FALSE]

\* _check_response_code(code): the warning issued, whether it raised, its result
CheckResponseCode(code) ==
    IF code = RateLimitCode
    THEN [called |-> TRUE, raised |-> FALSE, warning |-> "limit", exit_func |-> TRUE]
    ELSE IF code = ServerErrorCode
    THEN IF "reponse" \in CheckLocalNames
         THEN [called |-> TRUE, raised |-> FALSE, warning |-> "server", exit_func |-> FALSE]
         ELSE [called |-> TRUE, raised |-> TRUE, warning |-> "none", exit_func |-> FALSE]
    ELSE [called |-> TRUE, raised |-> FALSE, warning |-> "status", exit_func |-> FALSE]

\* what requests.get(url).json() can give: an exception, or a json document
\* with or without 'meta', and with or without 'response'/'venues'
NoResponse == [raises |-> FALSE, hasMeta |-> FALSE, code |-> 0, hasVenues |-> FALSE, n |-> 0]
Responses ==
    {[NoResponse EXCEPT !.raises = TRUE]}
    \cup {NoResponse}
    \cup {[NoResponse EXCEPT !.hasMeta = TRUE, !.code = c] : c \in Codes}
    \cup {[NoResponse EXCEPT !.hasMeta = TRUE, !.code = 200, !.hasVenues = TRUE, !.n = len] :
             len \in 0..MaxVenues}

\* a response that is a failure of the call: the request raised, or the
\* document lacks 'meta' or 'response'/'venues' although it carries no
\* rate-limit or server-error status
IsFailure(r) ==
    \/ r.raises
    \/ ~r.hasMeta
    \/ r.code \notin {RateLimitCode, ServerErrorCode} /\ ~r.hasVenues

\* make_fsquare_api_call: the request it sends, or none when tp is invalid
ApiCall(sp, t) ==
    [ll |-> <<sp.latitude, sp.longitude>>,
     a |-> IF t = "cat" THEN sp.categories ELSE IF t = "qur" THEN sp.query ELSE 0,
     tp |-> t]

Ids_of(venues) == [k \in 1..Len(venues) |-> venues[k].id]
InSeq(x, s) == \E k \in 1..Len(s) : s[k] = x

\* no venue bound yet
NoVenue == [id |-> "", payload |-> ""]

EmptyData == [venues |-> <<>>, venue_ids |-> <<>>]

\* --------------------------------------------------------------- Init
\* create_grid is not running
GridIdle ==
    /\ gpc = "idle"
    /\ centre = <<>> /\ radius = 0 /\ minor_radius = 0
    /\ area_shape = "" /\ ov = FALSE
    /\ n = 0 /\ num_grid_areas = 0 /\ area_radius = <<0, 0>>
    /\ axis = 0 /\ centres_x = <<>> /\ centres_y = <<>>
    /\ gret = <<>> /\ gexc = "none"

\* get_all_fsquare_categories is not running
CatIdle ==
    /\ kpc = "idle"
    /\ all_categories = <<>> /\ categ_name = <<>> /\ w = <<>>
    /\ w_categories = <<>> /\ kret = <<>> /\ kexc = "none"

\* Scraper.scrape is not running
ScrapeIdle ==
    /\ spc = "idle"
    /\ links = <<>> /\ vb = 0 /\ batch = 0 /\ linkno = 0 /\ session = 0
    /\ sdata = <<>> /\ v_id = 0 /\ sessions = <<>> /\ closes = 0
    /\ needed = FALSE /\ sret = <<>> /\ sexc = "none"

\* Scraper.crawl is not running
CrawlIdle ==
    /\ upc = "idle"
    /\ url = <<>> /\ all_pgs = FALSE /\ base_url = <<>> /\ domain_name = <<>>
    /\ pages = 0 /\ crawl_links = <<>> /\ uret = <<>> /\ uexc = "none"

Init ==
    /\ GridIdle /\ CatIdle /\ ScrapeIdle /\ CrawlIdle
    /\ pc = "start"
    /\ \E c \in Points :
          search_params = [query |-> 0, categories |-> 0,
                           latitude |-> c[1], longitude |-> c[2]]
    /\ queries \in QueryLists
    /\ tp \in Tps
    /\ coords \in {DefaultCoords} \cup CoordsLists
    /\ verbose \in Verbosity
    /\ all_fsq_data = EmptyData
    /\ i = 0 /\ j = 0 /\ pending = 0
    /\ venue = NoVenue
    /\ ret = <<>> /\ exc = "none"
    /\ calls = <<>> /\ check = NoCheck /\ last = NoResponse
    /\ offered = {} /\ rateSeen = FALSE /\ failSeen = FALSE

\* ------------------------------------------------------------ actions
\* lines 132-142: the coords check (list case) and the empty result set
CheckCoords ==
    /\ pc = "start"
    /\ coords' = IF Len(coords) = 1 /\ Len(coords[1]) = 0
                 THEN << <<search_params.latitude, search_params.longitude>> >>
                 ELSE coords
    /\ all_fsq_data' = EmptyData
    /\ pc' = "area"
    /\ UNCHANGED <<search_params, queries, tp, verbose, i, j, pending, venue, ret, exc,
                   calls, check, last, offered, rateSeen, failSeen>>
    /\ UNCHANGED <<gvars, kvars, svars, uvars>>

\* lines 143-145: the next area; longlat = coords[i]
SetArea(sp, longlat) == [sp EXCEPT !.longitude = longlat[1], !.latitude = longlat[2]]

NextArea ==
    /\ pc = "area"
    /\ i < Len(coords)
    /\ i' = i + 1
    /\ search_params' = SetArea(search_params, coords[i + 1])
    /\ j' = 0
    /\ pc' = "query"
    /\ UNCHANGED <<queries, tp, coords, verbose, all_fsq_data, pending, venue, ret, exc,
                   calls, check, last, offered, rateSeen, failSeen>>
    /\ UNCHANGED <<gvars, kvars, svars, uvars>>

\* line 143, loop exhausted
AreasDone ==
    /\ pc = "area"
    /\ i = Len(coords)
    /\ pc' = "finish"
    /\ UNCHANGED <<search_params, queries, tp, coords, verbose, all_fsq_data, i, j,
                   pending, venue, ret, exc, calls, check, last, offered, rateSeen, failSeen>>
    /\ UNCHANGED <<gvars, kvars, svars, uvars>>

\* lines 147-150
SetItem(sp, t, item) ==
    IF t = "cat" THEN [sp EXCEPT !.categories = item]
    ELSE IF t = "qur" THEN [sp EXCEPT !.query = item]
    ELSE sp

\* lines 151-161, the try statement on response r: "return" when line 156
\* returns, else the number of venues the venue loop will iterate
TryCall(r) ==
    IF r.raises \/ ~r.hasMeta
    THEN [returns |-> FALSE, n |-> 0, check |-> NoCheck]
    ELSE LET c == CheckResponseCode(r.code) IN
         IF c.raised
         THEN [returns |-> FALSE, n |-> 0, check |-> c]
         ELSE IF c.exit_func
         THEN \* line 156: return all_fsq_data, venue_ids
              IF "venue_ids" \in LocalNames
              THEN [returns |-> TRUE, n |-> 0, check |-> c]
              ELSE [returns |-> FALSE, n |-> 0, check |-> c]
         ELSE IF r.hasVenues
         THEN [returns |-> FALSE, n |-> r.n, check |-> c]
         ELSE [returns |-> FALSE, n |-> 0, check |-> c]

\* lines 146-161: one search call for the next query of the current area
Search ==
    /\ pc = "query"
    /\ j < Len(queries)
    /\ j' = j + 1
    /\ search_params' = SetItem(search_params, tp, queries[j + 1])
    /\ calls' = Append(calls, [area |-> i, item |-> queries[j + 1],
                                req |-> ApiCall(search_params', tp)])
    /\ \E r \in Responses :
          /\ tp \notin {"cat", "qur"} => r.raises    \* line 85: ValueError
          /\ last' = r
          /\ LET t == TryCall(r) IN
                /\ check' = t.check
                /\ pending' = t.n
                /\ IF t.returns
                   THEN pc' = "done" /\ ret' = <<all_fsq_data>>
                   ELSE pc' = "venue" /\ ret' = ret
          /\ rateSeen' = (rateSeen \/ (~r.raises /\ r.hasMeta /\ r.code = RateLimitCode))
          /\ failSeen' = (failSeen \/ IsFailure(r))
    /\ UNCHANGED <<queries, tp, coords, verbose, all_fsq_data, i, venue, exc, offered>>
    /\ UNCHANGED <<gvars, kvars, svars, uvars>>

\* line 146, loop exhausted; lines 169-170 only print
QueriesDone ==
    /\ pc = "query"
    /\ j = Len(queries)
    /\ pc' = "area"
    /\ UNCHANGED <<search_params, queries, tp, coords, verbose, all_fsq_data, i, j,
                   pending, venue, ret, exc, calls, check, last, offered, rateSeen, failSeen>>
    /\ UNCHANGED <<gvars, kvars, svars, uvars>>

\* Insert without the membership test of line 164
InsertAlways(data, v) ==
    [venues |-> Append(data.venues, v),
     venue_ids |-> Append(data.venue_ids, v.id)]

\* Insert that lets the payload seen last replace the stored one
InsertLastWins(data, v) ==
    IF ~InSeq(v.id, data.venue_ids)
    THEN [venues |-> Append(data.venues, v),
          venue_ids |-> Append(data.venue_ids, v.id)]
    ELSE [data EXCEPT !.venues =
              [k \in 1..Len(data.venues) |->
                  IF data.venues[k].id = v.id THEN v ELSE data.venues[k]]]

\* lines 164-166: the result set after the loop body on venue
Insert(data, v) ==
    IF ~InSeq(v.id, data.venue_ids)
    THEN [venues |-> Append(data.venues, v),
          venue_ids |-> Append(data.venue_ids, v.id)]
    ELSE data

\* lines 162-168: the loop body on the next venue of the response
InsertVenue ==
    /\ pc = "venue"
    /\ pending > 0
    /\ \E v \in Venue :
          /\ venue' = v
          /\ all_fsq_data' = Insert(all_fsq_data, v)
          /\ offered' = offered \cup {v.id}
          /\ IF /\ ~InSeq(v.id, all_fsq_data.venue_ids)
                /\ verbose = 2
                /\ "venue_ids" \notin LocalNames      \* line 168
             THEN pc' = "raised" /\ exc' = "NameError" /\ pending' = pending
             ELSE pc' = pc /\ exc' = exc /\ pending' = pending - 1
    /\ UNCHANGED <<search_params, queries, tp, coords, verbose, i, j, ret,
                   calls, check, last, rateSeen, failSeen>>
    /\ UNCHANGED <<gvars, kvars, svars, uvars>>

\* line 162, loop exhausted: the call is processed
VenuesDone ==
    /\ pc = "venue"
    /\ pending = 0
    /\ pc' = "query"
    /\ last' = NoResponse
    /\ check' = NoCheck
    /\ UNCHANGED <<search_params, queries, tp, coords, verbose, all_fsq_data, i, j,
                   pending, venue, ret, exc, calls, offered, rateSeen, failSeen>>
    /\ UNCHANGED <<gvars, kvars, svars, uvars>>

\* lines 171-174
Finish ==
    /\ pc = "finish"
    /\ IF verbose # 0 /\ "venue_ids" \notin LocalNames     \* line 172
       THEN pc' = "raised" /\ exc' = "NameError" /\ ret' = ret
       ELSE pc' = "done" /\ exc' = exc /\ ret' = <<all_fsq_data>>
    /\ UNCHANGED <<search_params, queries, tp, coords, verbose, all_fsq_data, i, j,
                   pending, venue, calls, check, last, offered, rateSeen, failSeen>>
    /\ UNCHANGED <<gvars, kvars, svars, uvars>>

Next ==
    \/ CheckCoords
    \/ NextArea
    \/ AreasDone
    \/ Search
    \/ QueriesDone
    \/ InsertVenue
    \/ VenuesDone
    \/ Finish

Spec == Init /\ [][Next]_vars

TypeOK ==
    /\ pc \in {"start", "area", "query", "venue", "finish", "done", "raised"}
    /\ pending \in 0..MaxVenues
    /\ i \in 0..MaxAreas /\ j \in 0..MaxQueries
    /\ Len(calls) <= MaxAreas * MaxQueries

\* ======================================================== create_grid
\* Numbers a + b*sqrt(2) with integer a, b are pairs <<a, b>>: the overlap
\* amount minor_radius * 2**0.5 - minor_radius is irrational, and every
\* comparison the code makes on it is decided exactly on such pairs.
\* a + b*sqrt(2) >= 0
GeqZero(x) ==
    IF x[1] >= 0 /\ x[2] >= 0 THEN TRUE
    ELSE IF x[1] < 0 /\ x[2] < 0 THEN FALSE
    ELSE IF x[1] >= 0 THEN x[1] * x[1] >= 2 * x[2] * x[2]
    ELSE 2 * x[2] * x[2] >= x[1] * x[1]

\* OvAmount with the operands of the subtraction exchanged
OvAmountExchanged(mr, o) == IF o THEN <<mr, 0 - mr>> ELSE <<0, 0>>

\* lines 69-72
OvAmount(mr, o) == IF o THEN <<0 - mr, mr>> ELSE <<0, 0>>

\* minor_radius - ov_amount, the divisor of line 76 and the result of line 82
AreaRadius(mr, o) == <<mr - OvAmount(mr, o)[1], 0 - OvAmount(mr, o)[2]>>

\* line 76: np.ceil(radius / (minor_radius - ov_amount)), the least k with
\* k * (minor_radius - ov_amount) >= radius
CeilQuot(r, step) ==
    CHOOSE k \in 0..(2 * r + 1) :
        /\ GeqZero(<<k * step[1] - r, k * step[2]>>)
        /\ k = 0 \/ ~GeqZero(<<(k - 1) * step[1] - r, (k - 1) * step[2]>>)

\* line 79: n - 1 if (n - radius/minor_radius) >= 0.5 else n
NumGridAreas(k, r, mr) == IF 2 * (k * mr - r) >= mr THEN k - 1 ELSE k

\* np.linspace(start, stop, num): num evenly spaced values, both ends
\* included, [start] for num = 1, empty for num = 0. A value p/q is the
\* pair <<p, q>>, all values of one call over the same q.
Linspace(start, stop, num) ==
    [k \in 1..num |->
        IF num = 1 THEN <<start, 1>>
        ELSE <<start * (num - 1) + (k - 1) * (stop - start), num - 1>>]

\* np.matlib.repmat(row, m, 1): m rows, each the 1-D array row
Repmat(row, m) == [r \in 1..m |-> row]

\* lines 87-89
GridCentres(val, r, mr, num) == Linspace(val - r + mr, val + r - mr, num)

\* lines 92 / 94: the square array of one axis
SquareArray(grid_centres) == Repmat(grid_centres, Len(grid_centres))

CentreVals == {0, 5}
Centres == UNION {[1..len -> CentreVals] : len \in 1..3}
Shapes == {"circle", "square"}

\* get_fsquare_data is not running
AggIdle ==
    /\ pc = "idle"
    /\ search_params = [query |-> 0, categories |-> 0, latitude |-> 0, longitude |-> 0]
    /\ queries = <<>> /\ tp = "" /\ coords = <<>> /\ verbose = 0
    /\ all_fsq_data = EmptyData
    /\ i = 0 /\ j = 0 /\ pending = 0
    /\ venue = NoVenue
    /\ ret = <<>> /\ exc = "none"
    /\ calls = <<>> /\ check = NoCheck /\ last = NoResponse
    /\ offered = {} /\ rateSeen = FALSE /\ failSeen = FALSE

InitGrid ==
    /\ AggIdle /\ CatIdle /\ ScrapeIdle /\ CrawlIdle
    /\ gpc = "start"
    /\ centre \in Centres
    /\ radius \in 1..MaxRadius
    /\ minor_radius \in 1..MaxMinorRadius
    /\ area_shape \in Shapes
    /\ ov \in BOOLEAN
    /\ n = 0 /\ num_grid_areas = 0 /\ area_radius = <<0, 0>>
    /\ axis = 0 /\ centres_x = <<>> /\ centres_y = <<>>
    /\ gret = <<>> /\ gexc = "none"

\* lines 68-82
ComputeSize ==
    /\ gpc = "start"
    /\ n' = CeilQuot(radius, AreaRadius(minor_radius, ov))
    /\ num_grid_areas' = NumGridAreas(n', radius, minor_radius)
    /\ area_radius' = AreaRadius(minor_radius, ov)
    /\ gpc' = "axis"
    /\ UNCHANGED <<centre, radius, minor_radius, area_shape, ov, axis,
                   centres_x, centres_y, gret, gexc>>
    /\ UNCHANGED <<avars, kvars, svars, uvars>>

\* lines 86-94, i = 0 or 1: the square array of that axis
LayAxis ==
    /\ gpc = "axis"
    /\ axis < Len(centre)
    /\ axis < 2
    /\ LET grid_centres == GridCentres(centre[axis + 1], radius, minor_radius,
                                       num_grid_areas) IN
          IF axis = 0
          THEN centres_x' = <<SquareArray(grid_centres)>> /\ centres_y' = centres_y
          ELSE centres_y' = <<SquareArray(grid_centres)>> /\ centres_x' = centres_x
    /\ axis' = axis + 1
    /\ UNCHANGED <<gpc, centre, radius, minor_radius, area_shape, ov, n,
                   num_grid_areas, area_radius, gret, gexc>>
    /\ UNCHANGED <<avars, kvars, svars, uvars>>

\* lines 86-96, i = 2: a third component of centre
AxisRaise ==
    /\ gpc = "axis"
    /\ axis < Len(centre)
    /\ axis >= 2
    /\ gpc' = "raised"
    /\ gexc' = "ValueError"
    /\ UNCHANGED <<centre, radius, minor_radius, area_shape, ov, n,
                   num_grid_areas, area_radius, axis, centres_x, centres_y, gret>>
    /\ UNCHANGED <<avars, kvars, svars, uvars>>

\* line 98: centres_y is unbound when centre has a single component
GridReturn ==
    /\ gpc = "axis"
    /\ axis = Len(centre)
    /\ IF centres_x = <<>> \/ centres_y = <<>>
       THEN gpc' = "raised" /\ gexc' = "UnboundLocalError" /\ gret' = gret
       ELSE /\ gpc' = "done" /\ gexc' = gexc
            /\ gret' = <<[centres_x |-> centres_x[1], centres_y |-> centres_y[1],
                          area_radius |-> area_radius]>>
    /\ UNCHANGED <<centre, radius, minor_radius, area_shape, ov, n,
                   num_grid_areas, area_radius, axis, centres_x, centres_y>>
    /\ UNCHANGED <<avars, kvars, svars, uvars>>

NextGrid ==
    \/ ComputeSize
    \/ LayAxis
    \/ AxisRaise
    \/ GridReturn

SpecGrid == InitGrid /\ [][NextGrid]_vars

\* ---------------------------------------------------- create_grid claims
\* the coordinate sequence of one axis, as the loop computes it
AxisCoords(a) == GridCentres(centre[a], radius, minor_radius, num_grid_areas)
SeqRange(sq) == {sq[k] : k \in 1..Len(sq)}

\* the tile centres read off the returned arrays, position by position
GridPoints ==
    {<<gret[1].centres_x[a][b], gret[1].centres_y[a][b]>> :
        a \in 1..Len(gret[1].centres_x), b \in 1..Len(gret[1].centres_x)}

\* C9: the tile centres returned are exactly the Cartesian product of the
\* x-axis and the y-axis coordinate sequences, i.e. with num_grid_areas
\* coordinates per axis, num_grid_areas^2 distinct centres.
C9_CartesianProduct ==
    gpc = "done" =>
        /\ GridPoints = SeqRange(AxisCoords(1)) \X SeqRange(AxisCoords(2))
        /\ Cardinality(GridPoints) = num_grid_areas * num_grid_areas

\* n - radius/step >= 0.5 for step = tile_radius - ov, exactly
RemainderAtLeastHalf(k, r, step) ==
    GeqZero(<<(2 * k - 1) * step[1] - 2 * r, (2 * k - 1) * step[2]>>)

\* C10: for both overlap settings the number of tiles per axis is
\* n = ceil(radius / step), step = minor_radius - ov_amount, reduced by
\* one exactly when n - radius/step >= 0.5.
C10_TilesPerAxis ==
    gpc # "start" =>
        LET step == AreaRadius(minor_radius, ov) IN
            /\ n = CeilQuot(radius, step)
            /\ num_grid_areas = IF RemainderAtLeastHalf(n, radius, step)
                                THEN n - 1 ELSE n

\* squared distance of the point pt (a pair of values p/q over one q) to
\* the input centre is at most d^2
WithinOfCentre(pt, d) ==
    LET q == pt[1][2]
        dx == pt[1][1] - centre[1] * q
        dy == pt[2][1] - centre[2] * q
    IN  dx * dx + dy * dy <= d * d * q * q

\* C11: for radius >= minor_radius > 0 and either overlap setting, every
\* tile centre returned lies within distance radius of the input centre,
\* and the input centre lies within minor_radius of some tile centre.
C11_GridCoverage ==
    (gpc = "done" /\ radius >= minor_radius) =>
        /\ \A pt \in GridPoints : WithinOfCentre(pt, radius)
        /\ \E pt \in GridPoints : WithinOfCentre(pt, minor_radius)

\* (2 * area_radius)^2 - dist(p1, p2)^2 >= 0, for area_radius = a + b*sqrt(2)
\* and points over one q
CirclesOverlap(p1, p2, ar) ==
    LET q == p1[1][2]
        dx == p2[1][1] - p1[1][1]
        dy == p2[2][1] - p1[2][1]
    IN  GeqZero(<<4 * q * q * (ar[1] * ar[1] + 2 * ar[2] * ar[2]) - dx * dx - dy * dy,
                  8 * q * q * ar[1] * ar[2]>>)

\* C12: with overlap allowed, radius >= minor_radius > 0 and at least two
\* tiles per axis, two diagonally neighbouring tile centres are at most
\* twice the returned area_radius apart.
C12_DiagonalOverlap ==
    (gpc = "done" /\ ov /\ radius >= minor_radius /\ num_grid_areas >= 2) =>
        \A k \in 1..(num_grid_areas - 1) :
            CirclesOverlap(
                <<gret[1].centres_x[1][k], gret[1].centres_y[1][k]>>,
                <<gret[1].centres_x[1][k + 1], gret[1].centres_y[1][k + 1]>>,
                gret[1].area_radius)

\* lines 69-79 as a function of the arguments: the tiles per axis
TilesPerAxis(r, mr, o) == NumGridAreas(CeilQuot(r, AreaRadius(mr, o)), r, mr)

Abs(x) == IF x < 0 THEN 0 - x ELSE x

\* C13: for the same radius and minor_radius, the tiles per axis with
\* ov = True are at least those with ov = False, and, where both grids have
\* neighbouring centres, their distance along an axis, |stop - start| /
\* (tiles - 1), is smaller or equal with ov = True.
C13_OverlapNotSparser ==
    gpc # "start" =>
        LET other == TilesPerAxis(radius, minor_radius, ~ov)
            withOv == IF ov THEN num_grid_areas ELSE other
            without == IF ov THEN other ELSE num_grid_areas
            span == Abs(2 * (radius - minor_radius))
        IN  /\ withOv >= without
            /\ (withOv >= 2 /\ without >= 2) =>
                  span * (without - 1) <= span * (withOv - 1)

\* C13 witness: a grid returned with ov = True that has several tiles per
\* axis and more of them than the grid with ov = False has
C13_Witness ==
    /\ gpc = "done" /\ ov
    /\ TilesPerAxis(radius, minor_radius, FALSE) >= 2
    /\ num_grid_areas > TilesPerAxis(radius, minor_radius, FALSE)

\* C14: for radius < minor_radius (both positive) the grid returned holds
\* exactly one tile per axis and that tile's centre is the input centre.
C14_SingleTileAtCentre ==
    (gpc = "done" /\ radius < minor_radius) =>
        /\ num_grid_areas = 1
        /\ GridPoints = {<< <<centre[1], 1>>, <<centre[2], 1>> >>}

\* C15: a centre without exactly 2 components, or an area_shape other than
\* a circle, makes create_grid raise a ValueError before any array of grid
\* coordinates is bound, and it never returns.
C15_RejectsMalformed ==
    (gpc # "start" /\ (Len(centre) # 2 \/ area_shape # "circle")) =>
        /\ gpc # "done"
        /\ gret = <<>>
        /\ centres_x = <<>> /\ centres_y = <<>>
        /\ gpc = "raised" => gexc = "ValueError"

\* =================================================== get_fsquare_data
\* the (area, query) pairs in the order of the loops: areas in coords order,
\* within each area the queries in the caller's order
NumPairs == Len(coords) * Len(queries)
PairOf(k) == [area |-> ((k - 1) \div Len(queries)) + 1,
              item |-> queries[((k - 1) % Len(queries)) + 1]]
CallPair(c) == [area |-> c.area, item |-> c.item]
Terminated == pc \in {"done", "raised"}

\* a run with verbose = 0 never ends in an exception: the reference for C6
VerboseZeroReturns == verbose = 0 => exc = "none"

\* the calls issued so far are always a prefix of the enumeration of the pairs
CallsArePrefix ==
    pc # "start" =>
        /\ Len(calls) <= NumPairs
        /\ \A k \in 1..Len(calls) : CallPair(calls[k]) = PairOf(k)

\* C1: once a response carried the rate-limit status 429, the run has ended
\* by returning the venues accumulated so far (so no later search call is
\* issued and no exception reaches the caller).
C1_RateLimitStops ==
    rateSeen => /\ pc = "done"
                /\ exc = "none"
                /\ ret = <<all_fsq_data>>

\* C2: at every point the result set is consistent and duplicate-free:
\* 'venue_ids' is the list of the ids of 'venues' in the same order, and no
\* two entries of 'venues' have the same id.
C2_ResultSetConsistent ==
    /\ all_fsq_data.venue_ids = Ids_of(all_fsq_data.venues)
    /\ \A a, b \in 1..Len(all_fsq_data.venues) :
          a # b => all_fsq_data.venues[a].id # all_fsq_data.venues[b].id

\* C2 witness: a response of two venues was iterated to its end and left one
\* venue in the result set, the second one having been a duplicate
C2_Witness ==
    /\ pc = "venue" /\ pending = 0 /\ last.n = 2
    /\ Len(calls) = 1
    /\ Len(all_fsq_data.venues) = 1

\* C3: every iteration of the venue loop leaves 'venues' unchanged when the
\* venue's id is already present (whatever its payload), and appends the
\* venue at the end when its id is new; no step ever removes or reorders.
C3_FirstOccurrenceWins ==
    [][ /\ (pc = "venue" /\ pending > 0) =>
              IF InSeq(venue'.id, Ids_of(all_fsq_data.venues))
              THEN all_fsq_data'.venues = all_fsq_data.venues
              ELSE all_fsq_data'.venues = Append(all_fsq_data.venues, venue')
        /\ ~(pc = "venue" /\ pending > 0) /\ pc # "start" =>
              all_fsq_data'.venues = all_fsq_data.venues
      ]_vars

\* C3 witness: a venue whose id is present came again with another payload,
\* in a later call, and the first payload is the one kept
C3_Witness ==
    /\ pc = "venue" /\ Len(calls) = 2
    /\ Len(all_fsq_data.venues) = 1
    /\ venue.id = all_fsq_data.venues[1].id
    /\ venue.payload # all_fsq_data.venues[1].payload

\* C4: once a search call has failed (request raised, or document without
\* 'meta'/'response'/'venues'), the failing pair contributes no venue, no
\* exception reaches the caller, and the run ends having called every pair
\* and returning every venue the other responses carried.
C4_FailureIsolated ==
    failSeen =>
        /\ exc = "none"
        /\ (pc = "venue" /\ IsFailure(last)) => pending = 0
        /\ Terminated =>
              /\ Len(calls) = NumPairs
              /\ ret = <<all_fsq_data>>
              /\ offered = {all_fsq_data.venues[k].id : k \in 1..Len(all_fsq_data.venues)}

\* C5: a run that ended without a rate-limit response has issued exactly the
\* enumeration of the pairs, each once, in order.
C5_EveryPairOnceInOrder ==
    (Terminated /\ ~rateSeen) =>
        /\ Len(calls) = NumPairs
        /\ \A k \in 1..Len(calls) : CallPair(calls[k]) = PairOf(k)

C7_ServerErrorWarned ==
    (pc = "venue" /\ last.hasMeta /\ last.code = ServerErrorCode) =>
        /\ check.called
        /\ check.warning = "server"
        /\ ~check.raised
        /\ ~check.exit_func
        /\ pending = 0

\* C8: every search call is issued at the latitude and longitude of its
\* coords entry, read as (latitude, longitude); with the default coords that
\* entry is the latitude and longitude stored in api_params.
C8_LatitudeLongitude ==
    pc # "start" =>
        \A k \in 1..Len(calls) :
            calls[k].req.ll = <<coords[calls[k].area][1], coords[calls[k].area][2]>>

\* ========================================= get_all_fsquare_categories
\* Strings are sequences of one-character strings.
\* str.lower() on the characters in use
Lower(c) == IF c = "A" THEN "a" ELSE IF c = "B" THEN "b" ELSE c
LowerStr(str) == [k \in 1..Len(str) |-> Lower(str[k])]

\* sub in str
Contains(sub, str) ==
    \E off \in 0..(Len(str) - Len(sub)) :
        \A k \in 1..Len(sub) : str[off + k] = sub[k]

\* category names below the main categories, the search strings, and the
\* names of the main categories
SubNames == {<<"B", "a">>, <<"a", "b">>, <<"c">>}
SearchStrings == {<<"b", "a">>, <<"A">>}
MainNames == <<<<"F">>, <<"S">>>>
CategNames == {<<"F">>, <<"S">>, <<"X">>}

SeqsUpTo(S, m) == UNION {[1..len -> S] : len \in 0..m}

\* category trees without ids: leaves, and categories with leaves below
Leaves == {[name |-> nm, categories |-> <<>>] : nm \in SubNames}
Subtrees == {[name |-> nm, categories |-> cs] :
                nm \in SubNames, cs \in SeqsUpTo(Leaves, MaxSub)}

\* the tree with every category given its path as its unique id
RECURSIVE Label(_, _)
Label(node, path) ==
    [id |-> path, name |-> node.name,
     categories |-> [k \in 1..Len(node.categories) |->
                        Label(node.categories[k], Append(path, k))]]

\* the json documents of the categories request: with the category tree for
\* status 200, without 'response' otherwise
CategoryResponses ==
    {[code |-> 200, hasBody |-> TRUE,
      categories |-> <<Label([name |-> MainNames[1], categories |-> cs], <<1>>),
                       Label([name |-> MainNames[2], categories |-> <<lf>>], <<2>>)>>] :
        cs \in SeqsUpTo(Subtrees, MaxSub), lf \in Leaves}
    \cup {[code |-> c, hasBody |-> FALSE, categories |-> <<>>] : c \in Codes \ {200}}

\* lines 227-256: _find_str_recur(out, d, w); FindItems is its loop from
\* the k-th item of d['categories'] on
RECURSIVE FindStrRecur(_, _, _), FindItems(_, _, _, _)
FindStrRecur(out, d, str) ==
    IF Len(d.categories) # 0 THEN FindItems(out, d.categories, 1, str) ELSE out
FindItems(out, items, k, str) ==
    IF k > Len(items) THEN out
    ELSE IF Contains(LowerStr(str), LowerStr(items[k].name))
         THEN FindItems(FindStrRecur(Append(out, items[k].id), items[k], str),
                        items, k + 1, str)
         ELSE FindItems(out, items, k + 1, str)

\* lines 220-223: the loop over the main categories from the k-th on
RECURSIVE FindInMain(_, _, _, _, _)
FindInMain(out, primaries, k, name, str) ==
    IF k > Len(primaries) THEN out
    ELSE FindInMain(IF primaries[k].name = name
                    THEN FindStrRecur(out, primaries[k], str) ELSE out,
                    primaries, k + 1, name, str)

InitCat ==
    /\ AggIdle /\ GridIdle /\ ScrapeIdle /\ CrawlIdle
    /\ kpc = "start"
    /\ all_categories \in CategoryResponses
    /\ categ_name \in CategNames
    /\ w \in SearchStrings
    /\ w_categories = <<>> /\ kret = <<>> /\ kexc = "none"

\* the return value None of line 212
ReturnsNone == [none |-> TRUE]

\* lines 204-212: the request and the check of its status code
CatRequest ==
    /\ kpc = "start"
    /\ LET c == CheckResponseCode(all_categories.code) IN
          IF c.raised
          THEN kpc' = "raised" /\ kexc' = "NameError" /\ kret' = kret
          ELSE IF c.exit_func
          THEN kpc' = "done" /\ kexc' = kexc /\ kret' = <<ReturnsNone>>
          ELSE kpc' = "validate" /\ kexc' = kexc /\ kret' = kret
    /\ UNCHANGED <<all_categories, categ_name, w, w_categories>>
    /\ UNCHANGED <<avars, gvars, svars, uvars>>

\* lines 214-217
CatValidate ==
    /\ kpc = "validate"
    /\ IF ~all_categories.hasBody
       THEN kpc' = "raised" /\ kexc' = "KeyError"
       ELSE IF ~InSeq(categ_name, [k \in 1..Len(all_categories.categories) |->
                                      all_categories.categories[k].name])
       THEN kpc' = "raised" /\ kexc' = "ValueError"
       ELSE kpc' = "find" /\ kexc' = kexc
    /\ UNCHANGED <<all_categories, categ_name, w, w_categories, kret>>
    /\ UNCHANGED <<avars, gvars, svars, uvars>>

\* lines 219-225
CatFind ==
    /\ kpc = "find"
    /\ w_categories' = FindInMain(<<>>, all_categories.categories, 1, categ_name, w)
    /\ kret' = <<[all_categories |-> all_categories, w_categories |-> w_categories']>>
    /\ kpc' = "done"
    /\ UNCHANGED <<all_categories, categ_name, w, kexc>>
    /\ UNCHANGED <<avars, gvars, svars, uvars>>

NextCat ==
    \/ CatRequest
    \/ CatValidate
    \/ CatFind

SpecCat == InitCat /\ [][NextCat]_vars

\* the categories at any depth below category d
RECURSIVE Below(_)
Below(d) ==
    UNION {{d.categories[k]} \cup Below(d.categories[k]) : k \in 1..Len(d.categories)}

\* the main category of the given name
MainCategory ==
    CHOOSE d \in SeqRange(all_categories.categories) : d.name = categ_name

\* ids of the categories below the main category whose name contains w,
\* case-insensitively
MatchingIds ==
    {d.id : d \in {x \in Below(MainCategory) :
                      Contains(LowerStr(w), LowerStr(x.name))}}

\* C16: w_categories holds the id of every category at any depth below the
\* named main category whose name contains w case-insensitively, also
\* below a category whose name does not contain w, and each id once.
C16_AllMatchingCategories ==
    (kpc = "done" /\ "none" \notin DOMAIN kret[1]) =>
        /\ SeqRange(kret[1].w_categories) = MatchingIds
        /\ Len(kret[1].w_categories) = Cardinality(MatchingIds)

\* ====================================================== Scraper.scrape
\* links: batches of links, a link named by its batch and its place in it
LinkBatches ==
    UNION {{[b \in 1..nb |-> [m \in 1..f[b] |-> <<b, m>>]] :
               f \in [1..nb -> 0..MaxLinks]} : nb \in 0..MaxBatches}

\* what parse_page meets on one page: whether the top info is there (lines
\* 193-218), whether the details are in the page or need the web driver
\* (lines 255-269), whether webdriver.Safari() starts (line 476), and
\* whether the ratings convert (lines 290-298, only IndexError is caught)
PageKinds ==
    [top : {FALSE}, details : {"inline"}, starts : {TRUE}, ratings : {"ok"}]
    \cup [top : {TRUE}, details : {"inline", "driver"}, starts : BOOLEAN,
          ratings : {"ok", "raises"}]

\* lines 453-483, mode='create': the number of the session made, 0 for None
CreateSession(pg, made) == IF pg.starts THEN Len(made) + 1 ELSE 0

\* lines 269-273: the session parse_page holds after the details
SessionAfterDetails(pg, cur, made) ==
    IF pg.details = "driver" /\ cur = 0 THEN CreateSession(pg, made) ELSE cur

\* parse_page raises: no top info (line 194) or a rating that is no number
\* (line 295)
ParseRaises(pg) == ~pg.top \/ pg.ratings = "raises"

ScrapeInputs == {0, 1, 2, 3}

InitScrape ==
    /\ AggIdle /\ GridIdle /\ CatIdle /\ CrawlIdle
    /\ spc = "start"
    /\ links \in LinkBatches
    /\ vb \in ScrapeInputs
    /\ batch = 0 /\ linkno = 0 /\ session = 0 /\ sdata = <<>> /\ v_id = 0
    /\ sessions = <<>> /\ closes = 0 /\ needed = FALSE
    /\ sret = <<>> /\ sexc = "none"

\* lines 113-123
ScrapeStart ==
    /\ spc = "start"
    /\ vb' = IF vb \notin {0, 1, 2} THEN 1 ELSE vb
    /\ v_id' = 0 /\ batch' = 0 /\ session' = 0 /\ sdata' = <<>>
    /\ spc' = "batches"
    /\ UNCHANGED <<links, linkno, sessions, closes, needed, sret, sexc>>
    /\ UNCHANGED <<avars, gvars, kvars, uvars>>

\* lines 125-126
ScrapeNextBatch ==
    /\ spc = "batches" /\ batch < Len(links)
    /\ batch' = batch + 1 /\ linkno' = 0
    /\ spc' = "links"
    /\ UNCHANGED <<links, vb, session, sdata, v_id, sessions, closes, needed, sret, sexc>>
    /\ UNCHANGED <<avars, gvars, kvars, uvars>>

\* lines 127-131: get_soup is outside the try, so what requests.get raises
\* leaves scrape
ScrapeFetch ==
    /\ spc = "links" /\ linkno < Len(links[batch])
    /\ linkno' = linkno + 1
    /\ \E fetched \in BOOLEAN :
          IF fetched THEN spc' = "parse" /\ sexc' = sexc
          ELSE spc' = "raised" /\ sexc' = "ConnectionError"
    /\ UNCHANGED <<links, vb, batch, session, sdata, v_id, sessions, closes, needed, sret>>
    /\ UNCHANGED <<avars, gvars, kvars, uvars>>

\* lines 133-147 with parse_page (lines 184-299): the session made in
\* parse_page reaches scrape only with the return of line 299
ScrapeParse ==
    /\ spc = "parse"
    /\ \E pg \in PageKinds :
          LET reached == pg.top
              held == IF reached THEN SessionAfterDetails(pg, session, sessions)
                      ELSE session
              made == reached /\ pg.details = "driver" /\ session = 0 /\ held # 0
          IN  /\ sessions' = IF made THEN Append(sessions, "open") ELSE sessions
              /\ needed' = (needed \/ (reached /\ pg.details = "driver"))
              /\ IF ParseRaises(pg)
                 THEN UNCHANGED <<session, sdata, v_id>>
                 ELSE /\ session' = held
                      /\ sdata' = Append(sdata, [url |-> links[batch][linkno],
                                                 venue_id |-> v_id])
                      /\ v_id' = v_id + 1
    /\ spc' = "links"
    /\ UNCHANGED <<links, vb, batch, linkno, closes, sret, sexc>>
    /\ UNCHANGED <<avars, gvars, kvars, uvars>>

\* lines 149-150
ScrapeBatchDone ==
    /\ spc = "links" /\ linkno = Len(links[batch])
    /\ spc' = "batches"
    /\ UNCHANGED <<links, vb, batch, linkno, session, sdata, v_id, sessions, closes,
                   needed, sret, sexc>>
    /\ UNCHANGED <<avars, gvars, kvars, uvars>>

\* lines 151-153 with _webdriversession(mode='close') (lines 478-483):
\* None.close() is an AttributeError, which is caught
ScrapeClose ==
    /\ spc = "batches" /\ batch = Len(links)
    /\ IF session = 0
       THEN UNCHANGED <<sessions, closes>>
       ELSE /\ sessions' = [sessions EXCEPT ![session] = "closed"]
            /\ closes' = closes + 1
    /\ sret' = <<sdata>>
    /\ spc' = "done"
    /\ UNCHANGED <<links, vb, batch, linkno, session, sdata, v_id, needed, sexc>>
    /\ UNCHANGED <<avars, gvars, kvars, uvars>>

NextScrape ==
    \/ ScrapeStart
    \/ ScrapeNextBatch
    \/ ScrapeFetch
    \/ ScrapeParse
    \/ ScrapeBatchDone
    \/ ScrapeClose

SpecScrape == InitScrape /\ [][NextScrape]_vars

\* the sessions made and not closed
OpenSessions == {k \in 1..Len(sessions) : sessions[k] = "open"}

\* C17: in a scrape run a session is made only once a page needed it, no
\* second session is made, and when scrape has ended, by return or by an
\* exception of a page fetch, the session made has been closed, once.
C17_SessionScoped ==
    /\ Len(sessions) > 0 => needed
    /\ Len(sessions) <= 1
    /\ spc \in {"done", "raised"} =>
          /\ OpenSessions = {}
          /\ closes = Len(sessions)

\* ======================================================= Scraper.crawl
\* Python's index of a slice bound in a string of length len
SliceIndex(idx, len) ==
    IF idx < 0 THEN (IF idx + len < 0 THEN 0 ELSE idx + len)
    ELSE IF idx > len THEN len ELSE idx

\* str[a:b]
PySlice(str, a, b) ==
    SubSeq(str, SliceIndex(a, Len(str)) + 1, SliceIndex(b, Len(str)))

\* sub occurs in str at the 0-based index idx
OccursAt(str, sub, idx) ==
    /\ idx >= 0 /\ idx + Len(sub) <= Len(str)
    /\ \A k \in 1..Len(sub) : str[idx + k] = sub[k]

\* str.find(sub, start)
Find(str, sub, start) ==
    LET hits == {idx \in SliceIndex(start, Len(str))..Len(str) : OccursAt(str, sub, idx)}
    IN  IF hits = {} THEN -1 ELSE CHOOSE idx \in hits : \A o \in hits : idx <= o

\* str.rfind(sub, start, end)
RFind(str, sub, start, end) ==
    LET hits == {idx \in SliceIndex(start, Len(str))..SliceIndex(end, Len(str)) :
                    /\ OccursAt(str, sub, idx)
                    /\ idx + Len(sub) <= SliceIndex(end, Len(str))}
    IN  IF hits = {} THEN -1 ELSE CHOOSE idx \in hits : \A o \in hits : idx >= o

\* the urls given to crawl: a scheme, a host and a path
Schemes == {<<"h", "t", "t", "p", ":", "/", "/">>,
            <<"h", "t", "t", "p", "s", ":", "/", "/">>,
            <<"f", "t", "p", ":", "/", "/">>}
Hosts == {<<"a">>, <<"a", ".", "b">>, <<"w", ".", "a", ".", "b">>}
Paths == {<<>>, <<"/", "r">>, <<"/", "r", "/", "s">>}
Urls == {sc \o ho \o pa : sc \in Schemes, ho \in Hosts, pa \in Paths}

\* the href values of the listings of a page
Hrefs == {<<"/", "x">>, <<"/", "y">>}

\* lines 70-73
Stp(str) ==
    IF Find(str, <<"h", "t", "t", "p", "s">>, 0) # -1
    THEN Find(str, <<"/">>, 7)
    ELSE Find(str, <<"/">>, 8)

\* lines 426-430: _get_page_listings on a page with the listings hrefs
GetPageListings(base, hrefs) == [k \in 1..Len(hrefs) |-> base \o hrefs[k]]

InitCrawl ==
    /\ AggIdle /\ GridIdle /\ CatIdle /\ ScrapeIdle
    /\ upc = "start"
    /\ url \in Urls
    /\ all_pgs \in BOOLEAN
    /\ base_url = <<>> /\ domain_name = <<>> /\ pages = 0 /\ crawl_links = <<>>
    /\ uret = <<>> /\ uexc = "none"

\* lines 67-75
CrawlBase ==
    /\ upc = "start"
    /\ IF Find(url, <<"h", "t", "t", "p">>, 0) = -1
       THEN /\ upc' = "raised" /\ uexc' = "AssertionError"
            /\ UNCHANGED <<base_url, domain_name>>
       ELSE /\ domain_name' = PySlice(url, RFind(url, <<".">>, 0, Stp(url)), Stp(url))
            /\ base_url' = PySlice(url, 0, Stp(url))
            /\ upc' = "fetch" /\ uexc' = uexc
    /\ UNCHANGED <<url, all_pgs, pages, crawl_links, uret>>
    /\ UNCHANGED <<avars, gvars, kvars, svars>>

\* lines 77-83, 86-88: the first page, and with all_pgs the further search
\* pages _crawler finds (lines 373-403); pages counts the pages to list
CrawlFetch ==
    /\ upc = "fetch"
    /\ \E fetched \in BOOLEAN :
          IF fetched
          THEN /\ \E found \in 0..MaxPages :
                     pages' = IF all_pgs THEN 1 + found ELSE 1
               /\ upc' = "list" /\ uexc' = uexc
          ELSE upc' = "raised" /\ uexc' = "ConnectionError" /\ pages' = pages
    /\ UNCHANGED <<url, all_pgs, base_url, domain_name, crawl_links, uret>>
    /\ UNCHANGED <<avars, gvars, kvars, svars>>

\* lines 84-85 and 88 with _get_page_listings (lines 418-430)
CrawlList ==
    /\ upc = "list" /\ pages > 0
    /\ \E fetched \in BOOLEAN :
          IF fetched
          THEN /\ \E hrefs \in SeqsUpTo(Hrefs, MaxHrefs) :
                     crawl_links' = Append(crawl_links, GetPageListings(base_url, hrefs))
               /\ pages' = pages - 1
               /\ upc' = upc /\ uexc' = uexc
          ELSE /\ upc' = "raised" /\ uexc' = "ConnectionError"
               /\ UNCHANGED <<crawl_links, pages>>
    /\ UNCHANGED <<url, all_pgs, base_url, domain_name, uret>>
    /\ UNCHANGED <<avars, gvars, kvars, svars>>

\* lines 89-90
CrawlReturn ==
    /\ upc = "list" /\ pages = 0
    /\ uret' = <<crawl_links>>
    /\ upc' = "done"
    /\ UNCHANGED <<url, all_pgs, base_url, domain_name, pages, crawl_links, uexc>>
    /\ UNCHANGED <<avars, gvars, kvars, svars>>

NextCrawl ==
    \/ CrawlBase
    \/ CrawlFetch
    \/ CrawlList
    \/ CrawlReturn

SpecCrawl == InitCrawl /\ [][NextCrawl]_vars

\* the 0-based index of the first '/' after '://' in str, -1 without one
PathStart(str) == Find(str, <<"/">>, Find(str, <<":", "/", "/">>, 0) + 3)

\* scheme plus host of str: all before the first '/' after '://'
SchemeHost(str) == SubSeq(str, 1, PathStart(str))

\* C18: once crawl has read an http:// or https:// url with a path,
\* base_url is the scheme plus host of the url, and every listing link is
\* that scheme plus host followed by the href of the listing.
C18_BaseUrlIsSchemeHost ==
    (upc \in {"fetch", "list", "done"} /\ PathStart(url) # -1) =>
        /\ base_url = SchemeHost(url)
        /\ \A p \in 1..Len(crawl_links) : \A k \in 1..Len(crawl_links[p]) :
              \E href \in Hrefs : crawl_links[p][k] = SchemeHost(url) \o href

====
